---- MODULE Spec2Model ----
(***************************************************************************)
(* Model of the Royal Game of Ur rules engine (class Game in               *)
(* src/src/ui/DomInputHandler.ts, constants in src/src/game/types.ts).     *)
(*                                                                         *)
(* The engine state is Game.state (pieces, currentPlayer, dice,            *)
(* waitingForRoll, possibleMoves, winner, lastRoll) and Game.wins.  Every  *)
(* public method of Game is one action.  Pieces are identified by their    *)
(* index in state.pieces (0..6 light, 7..13 dark), as the code does.       *)
(* ret is what the last call returned to its caller: <<n>> for the number  *)
(* n of rollDice, <<>> for the void methods.                               *)
(*                                                                         *)
(* Around the engine:                                                      *)
(*  matchWins     history variable, Game.wins as it was when the current   *)
(*                match began (at construction or at the last resetGame);  *)
(*  saved, built  the constructor: the text loadWins reads from storage    *)
(*                (<<>> for null, <<text>> otherwise) and how far the      *)
(*                constructor got ("new", "ok", "threw");                  *)
(*  lookups       the last two calls of the path-to-location mappings      *)
(*                with their results;                                      *)
(*  draggedPiece, switchTimers, resetTimers                                *)
(*                DomInputHandler: the piece being dragged (<<>> for       *)
(*                null, <<i>> for piece i) and the setTimeout callbacks    *)
(*                that are scheduled and have not run yet.                 *)
(* Spec is the engine driven through its public methods, SpecLoad starts   *)
(* at the constructor, SpecPath calls the location mappings and SpecUI is  *)
(* the engine driven by DomInputHandler's event handlers and timers.       *)
(***************************************************************************)
EXTENDS Integers, Sequences, FiniteSets, TLC

VARIABLES pieces, currentPlayer, dice, waitingForRoll, possibleMoves,
          winner, lastRoll, wins, ret,
          matchWins, saved, built, lookups,
          draggedPiece, switchTimers, resetTimers

vars == <<pieces, currentPlayer, dice, waitingForRoll, possibleMoves,
          winner, lastRoll, wins, ret,
          matchWins, saved, built, lookups,
          draggedPiece, switchTimers, resetTimers>>

\* Game.state and Game.wins
game == <<pieces, currentPlayer, dice, waitingForRoll, possibleMoves,
          winner, lastRoll, wins>>

(***************************************************************************)
(* Program constants (types.ts).                                           *)
(***************************************************************************)
TOTAL_PIECES == 7

ROSETTE_INDICES == {3, 7, 13}

PlayerId == {"light", "dark"}

None == "none"

(***************************************************************************)
(* Bounds of the exploration.                                              *)
(*  DiceInputs  the dice outcomes the environment draws (Math.random).     *)
(*  MoveInputs  the piece indices callers pass to movePiece.  One index    *)
(*              per kind: two light pieces, one dark piece, and one index  *)
(*              outside the array.                                         *)
(***************************************************************************)
DiceInputs ==
    { <<0, 0, 0, 0>>, <<0, 1, 0, 0>>, <<1, 0, 0, 1>>,
      <<1, 1, 0, 1>>, <<1, 1, 1, 1>> }

MoveInputs == {5, 6, 13, 14}

(***************************************************************************)
(* Helpers over the piece array.                                           *)
(***************************************************************************)
NumPieces == 2 * TOTAL_PIECES

PieceIdx == 0 .. (NumPieces - 1)

\* state.pieces as the ordered list of its indices (array order)
PieceOrder == [k \in 1 .. NumPieces |-> k - 1]

Other(p) == IF p = "light" THEN "dark" ELSE "light"

SeqSum(s) == s[1] + s[2] + s[3] + s[4]

InSeq(x, s) == \E k \in 1 .. Len(s) : s[k] = x

Min(S) == CHOOSE x \in S : \A y \in S : x <= y

\* getInitialState().pieces
InitialPieces ==
    [i \in PieceIdx |->
        [owner      |-> IF i < TOTAL_PIECES THEN "light" ELSE "dark",
         position   |-> -1,
         isFinished |-> FALSE]]

\* Faulty variant of getPathLocation: the combat zone 4..11 is not shared,
\* every index maps to a cell of the player's own.
getPathLocation_NoShared(player, pathIndex) ==
    IF pathIndex < 0 \/ pathIndex > 14 THEN <<"OFF", player>>
    ELSE <<(IF player = "light" THEN "L" ELSE "D"), pathIndex>>

\* Faulty variant of getPathLocation: the side-exclusive indices are shared
\* too, every index on the board maps to one cell for both players.
getPathLocation_AllShared(player, pathIndex) ==
    IF pathIndex < 0 \/ pathIndex > 14 THEN <<"OFF", player>>
    ELSE <<"C", pathIndex - 4>>

\* Game.getPathLocation: (player, pathIndex) -> board location id
getPathLocation(player, pathIndex) ==
    IF pathIndex < 0 \/ pathIndex > 14 THEN <<"OFF", player>>
    ELSE IF pathIndex >= 4 /\ pathIndex <= 11 THEN <<"C", pathIndex - 4>>
    ELSE IF pathIndex < 4
         THEN <<(IF player = "light" THEN "L" ELSE "D"), pathIndex>>
    ELSE IF pathIndex > 11
         THEN <<(IF player = "light" THEN "L" ELSE "D"), pathIndex>>
    ELSE <<"UNKNOWN", 0>>

\* pieces.find(other => !other.isFinished && other.position !== -1 &&
\*             getPathLocation(other.owner, other.position) === loc),
\* leaving out the piece with index `skip` (movePiece's p !== piece; the
\* enumeration passes -1, it leaves nothing out).  The result is the index
\* of the first such piece in array order, or -1 for undefined.
Occupier(ps, loc, skip) ==
    LET cand == { j \in PieceIdx :
                    /\ j # skip
                    /\ ~ps[j].isFinished
                    /\ ps[j].position # -1
                    /\ getPathLocation(ps[j].owner, ps[j].position) = loc }
    IN  IF cand = {} THEN -1 ELSE Min(cand)

\* Faulty variant of IsValidMove: the test for the central rosette is
\* missing, an opponent piece on index 7 can be captured.
IsValidMove_CaptureOnSafe(ps, cp, roll, i) ==
    LET targetPos == ps[i].position + roll
        occ       == Occupier(ps, getPathLocation(cp, targetPos), -1)
    IN  IF targetPos = 14 THEN TRUE
        ELSE IF targetPos > 14 THEN FALSE
        ELSE IF occ # -1 THEN ps[occ].owner # cp
        ELSE TRUE

\* Faulty variant of IsValidMove: a cell held by an own piece is not
\* refused.
IsValidMove_StackOwn(ps, cp, roll, i) ==
    LET targetPos == ps[i].position + roll
        occ       == Occupier(ps, getPathLocation(cp, targetPos), -1)
    IN  IF targetPos = 14 THEN TRUE
        ELSE IF targetPos > 14 THEN FALSE
        ELSE IF occ # -1 /\ ps[occ].owner # cp
             THEN targetPos # 7
        ELSE TRUE

\* Faulty variant of IsValidMove: an overshoot is clamped to the finish.
IsValidMove_Clamp(ps, cp, roll, i) ==
    LET targetPos == ps[i].position + roll
        occ       == Occupier(ps, getPathLocation(cp, targetPos), -1)
    IN  IF targetPos >= 14 THEN TRUE
        ELSE IF occ # -1
             THEN IF ps[occ].owner = cp THEN FALSE
                  ELSE IF targetPos = 7 THEN FALSE
                  ELSE TRUE
        ELSE TRUE

\* The body of the forEach of calculatePossibleMoves for the piece with
\* index i: TRUE iff its index is pushed on validPieceIndices.
IsValidMove(ps, cp, roll, i) ==
    LET targetPos == ps[i].position + roll
        occ       == Occupier(ps, getPathLocation(cp, targetPos), -1)
    IN  IF targetPos = 14 THEN TRUE
        ELSE IF targetPos > 14 THEN FALSE
        ELSE IF occ # -1
             THEN IF ps[occ].owner = cp THEN FALSE
                  ELSE IF targetPos = 7 THEN FALSE
                  ELSE TRUE
        ELSE TRUE

\* Game.calculatePossibleMoves(roll): the new value of state.possibleMoves
calculatePossibleMoves(ps, cp, roll) ==
    SelectSeq(PieceOrder,
              LAMBDA i : /\ ps[i].owner = cp
                         /\ ~ps[i].isFinished
                         /\ IsValidMove(ps, cp, roll, i))

FinishedCount(ps, side) ==
    Cardinality({ j \in PieceIdx : ps[j].owner = side /\ ps[j].isFinished })

\* Faulty variant of checkWin: the dark branch counts the win for light.
checkWin_WrongTally(ps, w, t) ==
    IF FinishedCount(ps, "light") = TOTAL_PIECES
    THEN [winner |-> "light", wins |-> [t EXCEPT !.light = @ + 1]]
    ELSE IF FinishedCount(ps, "dark") = TOTAL_PIECES
    THEN [winner |-> "dark", wins |-> [t EXCEPT !.light = @ + 1]]
    ELSE [winner |-> w, wins |-> t]

\* Game.checkWin: the winner and the tallies it leaves, from the pieces,
\* the winner and the tallies it finds
checkWin(ps, w, t) ==
    IF FinishedCount(ps, "light") = TOTAL_PIECES
    THEN [winner |-> "light", wins |-> [t EXCEPT !.light = @ + 1]]
    ELSE IF FinishedCount(ps, "dark") = TOTAL_PIECES
    THEN [winner |-> "dark", wins |-> [t EXCEPT !.dark = @ + 1]]
    ELSE [winner |-> w, wins |-> t]

\* Faulty variant of IsRosette: the last rosette (index 13) is forgotten.
IsRosette_NoLast(targetPos) == targetPos \in {3, 7}

\* ROSETTE_INDICES.includes(targetPos)
IsRosette(targetPos) == targetPos \in ROSETTE_INDICES

(***************************************************************************)
(* Initial states.  InitialPieces is what the constructor and resetGame       *)
(* produce.  Exploring a whole match from it is out of reach of an         *)
(* explicit-state check, so the exploration also starts from an endgame    *)
(* position of a match (five light and six dark pieces borne off, the rest *)
(* in reserve, light to roll after dark's last bear-off switched the       *)
(* turn), from which bear-off and win detection are a few moves away.      *)
(***************************************************************************)
EndgamePieces ==
    [i \in PieceIdx |->
        IF i \in {5, 6, 13}
        THEN InitialPieces[i]
        ELSE [owner      |-> InitialPieces[i].owner,
              position   |-> 14,
              isFinished |-> TRUE]]

StartPieces == {InitialPieces, EndgamePieces}

Init ==
    /\ pieces \in StartPieces
    /\ currentPlayer = "light"
    /\ dice = <<0, 0, 0, 0>>
    /\ waitingForRoll = TRUE
    /\ possibleMoves = <<>>
    /\ winner = None
    /\ lastRoll = 0
    /\ wins = [light |-> 0, dark |-> 0]
    /\ ret = <<>>
    /\ matchWins = wins
    /\ saved = <<>>
    /\ built = "ok"
    /\ lookups = <<>>
    /\ draggedPiece = <<>>
    /\ switchTimers = 0
    /\ resetTimers = 0

(***************************************************************************)
(* Game.switchTurn                                                         *)
(***************************************************************************)
switchTurnEffect ==
    /\ currentPlayer' = Other(currentPlayer)
    /\ waitingForRoll' = TRUE
    /\ possibleMoves' = <<>>
    /\ lastRoll' = 0
    /\ dice' = <<0, 0, 0, 0>>

\* Faulty variant of SwitchTurn: it also clears the winner.
SwitchTurn_ClearsWinner ==
    /\ switchTurnEffect
    /\ winner' = None
    /\ ret' = <<>>
    /\ UNCHANGED <<pieces, wins>>

\* Faulty variant of SwitchTurn: the roll of the turn that ends is kept.
SwitchTurn_KeepsRoll ==
    /\ currentPlayer' = Other(currentPlayer)
    /\ waitingForRoll' = TRUE
    /\ possibleMoves' = <<>>
    /\ ret' = <<>>
    /\ UNCHANGED <<lastRoll, dice, pieces, winner, wins>>

SwitchTurn ==
    /\ switchTurnEffect
    /\ ret' = <<>>
    /\ UNCHANGED <<pieces, winner, wins>>

(***************************************************************************)
(* Game.resetGame                                                          *)
(***************************************************************************)
\* Faulty variant of ResetGame: the win tallies are reset with the match.
ResetGame_ClearsWins ==
    /\ pieces' = InitialPieces
    /\ currentPlayer' = "light"
    /\ dice' = <<0, 0, 0, 0>>
    /\ waitingForRoll' = TRUE
    /\ possibleMoves' = <<>>
    /\ winner' = None
    /\ lastRoll' = 0
    /\ wins' = [light |-> 0, dark |-> 0]
    /\ ret' = <<>>

ResetGame ==
    /\ pieces' = InitialPieces
    /\ currentPlayer' = "light"
    /\ dice' = <<0, 0, 0, 0>>
    /\ waitingForRoll' = TRUE
    /\ possibleMoves' = <<>>
    /\ winner' = None
    /\ lastRoll' = 0
    /\ ret' = <<>>
    /\ UNCHANGED wins

(***************************************************************************)
(* Game.rollDice, the four coin flips being `rolls`                        *)
(***************************************************************************)
\* Faulty variant of rollEffect: the sum is recorded but the four drawn
\* values are not stored, dice keeps the values of the previous roll.
rollEffect_DiceNotStored(rolls) ==
    LET total == SeqSum(rolls)
    IN  /\ dice' = dice
        /\ lastRoll' = total
        /\ waitingForRoll' = FALSE
        /\ possibleMoves' =
               IF total = 0 THEN <<>>
               ELSE calculatePossibleMoves(pieces, currentPlayer, total)
        /\ ret' = <<total>>
        /\ UNCHANGED <<pieces, currentPlayer, winner, wins>>

\* the body of rollDice after the waitingForRoll test
rollEffect(rolls) ==
    LET total == SeqSum(rolls)
    IN  /\ dice' = rolls
        /\ lastRoll' = total
        /\ waitingForRoll' = FALSE
        /\ possibleMoves' =
               IF total = 0 THEN <<>>
               ELSE calculatePossibleMoves(pieces, currentPlayer, total)
        /\ ret' = <<total>>
        /\ UNCHANGED <<pieces, currentPlayer, winner, wins>>

\* Faulty variant of RollDiceWith: the waitingForRoll test is missing, a
\* second roll replaces the pending one.
RollDiceWith_NoGuard(rolls) == rollEffect(rolls)

\* Faulty variant of RollDiceWith: a roll of 0 ends the turn at once.
RollDiceWith_AutoSwitch(rolls) ==
    IF ~waitingForRoll
    THEN ret' = <<lastRoll>> /\ UNCHANGED game
    ELSE IF SeqSum(rolls) = 0
         THEN /\ switchTurnEffect
              /\ ret' = <<0>>
              /\ UNCHANGED <<pieces, winner, wins>>
         ELSE rollEffect(rolls)

\* Faulty variant of RollDiceWith: a roll of 0 leaves the roll pending.
RollDiceWith_ZeroKeepsWaiting(rolls) ==
    IF ~waitingForRoll
    THEN ret' = <<lastRoll>> /\ UNCHANGED game
    ELSE IF SeqSum(rolls) = 0
         THEN /\ dice' = rolls
              /\ lastRoll' = 0
              /\ possibleMoves' = <<>>
              /\ ret' = <<0>>
              /\ UNCHANGED <<waitingForRoll, pieces, currentPlayer, winner,
                              wins>>
         ELSE rollEffect(rolls)

\* Faulty variant of RollDiceWith: a roll that allows no move ends the turn.
RollDiceWith_SkipBlocked(rolls) ==
    IF ~waitingForRoll
    THEN ret' = <<lastRoll>> /\ UNCHANGED game
    ELSE IF /\ SeqSum(rolls) > 0
            /\ calculatePossibleMoves(pieces, currentPlayer, SeqSum(rolls))
                 = <<>>
         THEN /\ switchTurnEffect
              /\ ret' = <<SeqSum(rolls)>>
              /\ UNCHANGED <<pieces, winner, wins>>
         ELSE rollEffect(rolls)

RollDiceWith(rolls) ==
    IF ~waitingForRoll
    THEN ret' = <<lastRoll>> /\ UNCHANGED game
    ELSE rollEffect(rolls)

RollDice == \E rolls \in DiceInputs : RollDiceWith(rolls)

(***************************************************************************)
(* Game.movePiece(pieceIndex)                                              *)
(***************************************************************************)
\* Faulty variant of MoveFinish: bearing off is treated like landing on a
\* rosette, the mover rolls again.
MoveFinish_Bonus(pieceIndex) ==
    LET ps == [pieces EXCEPT ![pieceIndex].position = 14,
                             ![pieceIndex].isFinished = TRUE]
        cw == checkWin(ps, winner, wins)
    IN  /\ pieces' = ps
        /\ winner' = cw.winner
        /\ wins' = cw.wins
        /\ waitingForRoll' = TRUE
        /\ possibleMoves' = <<>>
        /\ UNCHANGED <<currentPlayer, lastRoll, dice>>

\* the bear-off branch (targetPos === 14)
MoveFinish(pieceIndex) ==
    LET ps == [pieces EXCEPT ![pieceIndex].position = 14,
                             ![pieceIndex].isFinished = TRUE]
        cw == checkWin(ps, winner, wins)
    IN  /\ pieces' = ps
        /\ winner' = cw.winner
        /\ wins' = cw.wins
        /\ IF cw.winner = None
           THEN switchTurnEffect
           ELSE UNCHANGED <<currentPlayer, waitingForRoll, possibleMoves,
                            lastRoll, dice>>

\* Faulty variant of MoveOnBoard: the occupier is left where it is.
MoveOnBoard_NoCapture(pieceIndex, targetPos) ==
    /\ pieces' = [pieces EXCEPT ![pieceIndex].position = targetPos]
    /\ UNCHANGED <<winner, wins>>
    /\ IF IsRosette(targetPos)
       THEN /\ waitingForRoll' = TRUE
            /\ possibleMoves' = <<>>
            /\ UNCHANGED <<currentPlayer, lastRoll, dice>>
       ELSE switchTurnEffect

\* Faulty variant of MoveOnBoard: landing on a rosette re-arms the roll
\* but leaves the enumerated moves in place.
MoveOnBoard_KeepsMoves(pieceIndex, targetPos) ==
    LET piece == pieces[pieceIndex]
        occ   == Occupier(pieces, getPathLocation(piece.owner, targetPos),
                          pieceIndex)
        captured == IF occ # -1 /\ pieces[occ].owner # piece.owner
                    THEN [pieces EXCEPT ![occ].position = -1]
                    ELSE pieces
    IN  /\ pieces' = [captured EXCEPT ![pieceIndex].position = targetPos]
        /\ UNCHANGED <<winner, wins>>
        /\ IF IsRosette(targetPos)
           THEN /\ waitingForRoll' = TRUE
                /\ UNCHANGED <<possibleMoves, currentPlayer, lastRoll, dice>>
           ELSE switchTurnEffect

\* Faulty variant of MoveOnBoard: a captured piece is put where the moving
\* piece came from instead of going back to reserve.
MoveOnBoard_SwapOnCapture(pieceIndex, targetPos) ==
    LET piece == pieces[pieceIndex]
        occ   == Occupier(pieces, getPathLocation(piece.owner, targetPos),
                          pieceIndex)
        captured == IF occ # -1 /\ pieces[occ].owner # piece.owner
                    THEN [pieces EXCEPT ![occ].position = piece.position]
                    ELSE pieces
    IN  /\ pieces' = [captured EXCEPT ![pieceIndex].position = targetPos]
        /\ UNCHANGED <<winner, wins>>
        /\ IF IsRosette(targetPos)
           THEN /\ waitingForRoll' = TRUE
                /\ possibleMoves' = <<>>
                /\ UNCHANGED <<currentPlayer, lastRoll, dice>>
           ELSE switchTurnEffect

\* the capture, the move and the rosette test
MoveOnBoard(pieceIndex, targetPos) ==
    LET piece == pieces[pieceIndex]
        occ   == Occupier(pieces, getPathLocation(piece.owner, targetPos),
                          pieceIndex)
        captured == IF occ # -1 /\ pieces[occ].owner # piece.owner
                    THEN [pieces EXCEPT ![occ].position = -1]
                    ELSE pieces
    IN  /\ pieces' = [captured EXCEPT ![pieceIndex].position = targetPos]
        /\ UNCHANGED <<winner, wins>>
        /\ IF IsRosette(targetPos)
           THEN /\ waitingForRoll' = TRUE
                /\ possibleMoves' = <<>>
                /\ UNCHANGED <<currentPlayer, lastRoll, dice>>
           ELSE switchTurnEffect

\* Faulty variant of MovePiece: the index is tested against the array, not
\* against possibleMoves.
MovePiece_AnyPiece(pieceIndex) ==
    /\ ret' = <<>>
    /\ IF pieceIndex \notin PieceIdx
       THEN UNCHANGED game
       ELSE LET targetPos == pieces[pieceIndex].position + lastRoll
            IN  IF targetPos = 14
                THEN MoveFinish(pieceIndex)
                ELSE MoveOnBoard(pieceIndex, targetPos)

MovePiece(pieceIndex) ==
    /\ ret' = <<>>
    /\ IF ~InSeq(pieceIndex, possibleMoves)
       THEN UNCHANGED game
       ELSE LET targetPos == pieces[pieceIndex].position + lastRoll
            IN  IF targetPos = 14
                THEN MoveFinish(pieceIndex)
                ELSE MoveOnBoard(pieceIndex, targetPos)

Move == \E pieceIndex \in MoveInputs : MovePiece(pieceIndex)

\* the constructor's variables
ctor == <<saved, built>>

\* DomInputHandler's variables
ui == <<draggedPiece, switchTimers, resetTimers>>

\* the engine called through its public methods; a match begins anew at
\* resetGame
Next ==
    \/ RollDice   /\ UNCHANGED <<matchWins, ctor, lookups, ui>>
    \/ Move       /\ UNCHANGED <<matchWins, ctor, lookups, ui>>
    \/ SwitchTurn /\ UNCHANGED <<matchWins, ctor, lookups, ui>>
    \/ ResetGame  /\ matchWins' = wins /\ UNCHANGED <<ctor, lookups, ui>>

Spec == Init /\ [][Next]_vars

(***************************************************************************)
(* Vocabulary of the properties.                                           *)
(***************************************************************************)
Range(s) == { s[k] : k \in 1 .. Len(s) }

OnBoard(j) == ~pieces[j].isFinished /\ pieces[j].position # -1

\* the board cell of path index t on the path of `side`, as the rules
\* describe it: 4..11 are shared, the rest belongs to the side
Cell(side, t) == IF t \in 4 .. 11 THEN <<"shared", t>> ELSE <<side, t>>

CellHolder(side, t) ==
    { j \in PieceIdx : /\ OnBoard(j)
                       /\ pieces[j].position \in 0 .. 13
                       /\ Cell(pieces[j].owner, pieces[j].position)
                            = Cell(side, t) }

\* the moves the rules allow for the current pieces, roll and player
LegalMoves ==
    { i \in PieceIdx :
        /\ pieces[i].owner = currentPlayer
        /\ ~pieces[i].isFinished
        /\ lastRoll > 0
        /\ LET t == pieces[i].position + lastRoll
           IN  \/ t = 14
               \/ /\ t < 14
                  /\ \A j \in CellHolder(currentPlayer, t) :
                        pieces[j].owner # currentPlayer /\ t # 7 }

\* a step of movePiece(i) that passes the possibleMoves test
Accepted(i) == InSeq(i, possibleMoves) /\ MovePiece(i)

Target(i) == pieces[i].position + lastRoll

(***************************************************************************)
(* Properties.                                                             *)
(***************************************************************************)

\* C1: in every reachable state possibleMoves holds only indices of pieces
\* that are owned by currentPlayer and are not finished.
C1_MovesOwnedUnfinished ==
    \A i \in Range(possibleMoves) :
        /\ i \in PieceIdx
        /\ pieces[i].owner = currentPlayer
        /\ ~pieces[i].isFinished

\* C2: possibleMoves is never stale: after every operation it is empty or
\* exactly the set of moves that are legal for the current pieces, lastRoll
\* and currentPlayer.
C2_MovesNeverStale ==
    \/ possibleMoves = <<>>
    \/ Range(possibleMoves) = LegalMoves

\* C3: in every reachable state every piece has its position in {-1} or
\* 0..14, and isFinished is true exactly when the position is 14.
C3_PositionConsistent ==
    \A j \in PieceIdx :
        /\ pieces[j].position \in ({-1} \cup (0 .. 14))
        /\ pieces[j].isFinished <=> (pieces[j].position = 14)

\* C4: no step of movePiece sends a piece that rests on path index 7 (the
\* safe square) back to the reserve.
C4_SafeSquareNeverCaptured ==
    [][ Move => \A j \in PieceIdx :
                    (~pieces[j].isFinished /\ pieces[j].position = 7)
                        => pieces'[j].position # -1 ]_vars

\* C4 witness: a piece rests on index 7 and the side to move has rolled the
\* exact distance from one of its pieces to index 7.
C4_Witness ==
    /\ ~waitingForRoll
    /\ lastRoll > 0
    /\ \E j, k \in PieceIdx :
          /\ pieces[j].owner # currentPlayer
          /\ OnBoard(j) /\ pieces[j].position = 7
          /\ pieces[k].owner = currentPlayer
          /\ ~pieces[k].isFinished
          /\ pieces[k].position + lastRoll = 7

TwoSidesOnSeven(ps) ==
    \E j, k \in PieceIdx :
        /\ ps[j].owner # ps[k].owner
        /\ ~ps[j].isFinished /\ ps[j].position = 7
        /\ ~ps[k].isFinished /\ ps[k].position = 7

\* C5: after a legal move whose destination is path index 7, no two
\* unfinished pieces of different owners are both at position 7.
C5_NoSharedSafeSquare ==
    [][ \A i \in MoveInputs :
          (Accepted(i) /\ Target(i) = 7) => ~TwoSidesOnSeven(pieces') ]_vars

\* C5 witness: a move has just landed on index 7 (the mover keeps the turn,
\* the roll that took it there is still shown) while the other side has a
\* piece in the shared zone.
C5_Witness ==
    /\ waitingForRoll
    /\ lastRoll > 0
    /\ \E j, k \in PieceIdx :
          /\ pieces[j].owner = currentPlayer
          /\ OnBoard(j) /\ pieces[j].position = 7
          /\ pieces[k].owner # currentPlayer
          /\ OnBoard(k) /\ pieces[k].position \in 4 .. 11

\* C6: an accepted move whose target is not 14 keeps currentPlayer, re-arms
\* waitingForRoll and empties possibleMoves when the target is 3, 7 or 13,
\* and flips currentPlayer for every other target.
C6_BonusTurnOnRosette ==
    [][ \A i \in MoveInputs :
          (Accepted(i) /\ Target(i) # 14) =>
              IF Target(i) \in {3, 7, 13}
              THEN /\ currentPlayer' = currentPlayer
                   /\ waitingForRoll' = TRUE
                   /\ possibleMoves' = <<>>
              ELSE currentPlayer' = Other(currentPlayer) ]_vars

\* C6 witness: the mover has just landed on index 13 and is to roll again.
C6_Witness ==
    /\ waitingForRoll
    /\ lastRoll > 0
    /\ possibleMoves = <<>>
    /\ \E j \in PieceIdx :
          /\ pieces[j].owner = currentPlayer
          /\ pieces[j].position = 13

\* C7: an accepted move with position + lastRoll = 14 puts the piece at 14
\* with isFinished true and grants no bonus turn; when no winner results
\* the turn passes to the other side, which is to roll.
C7_BearOffNoBonus ==
    [][ \A i \in MoveInputs :
          (Accepted(i) /\ Target(i) = 14) =>
              /\ pieces'[i].position = 14
              /\ pieces'[i].isFinished
              /\ ~(currentPlayer' = currentPlayer /\ waitingForRoll')
              /\ (winner' = None =>
                    /\ currentPlayer' = Other(currentPlayer)
                    /\ waitingForRoll') ]_vars

\* C7 witness: a piece has been borne off without a winner and the other
\* side is to roll.
C7_Witness ==
    /\ winner = None
    /\ waitingForRoll
    /\ lastRoll = 0
    /\ \E j \in MoveInputs \cap PieceIdx :
          /\ pieces[j].isFinished
          /\ pieces[j].owner # currentPlayer
    /\ \E j \in PieceIdx : pieces[j].position = -1

\* C8: winner is side s exactly when s has 7 finished pieces, and winner is
\* none exactly when neither side has.
C8_WinnerIffSevenFinished ==
    \A s \in PlayerId : (winner = s) <=> (FinishedCount(pieces, s) = 7)

\* C9: a step that records side s as winner raises the tally of s by
\* exactly 1 and leaves the other tally alone.
C9_TallyOfWinnerPlusOne ==
    [][ (winner' # None /\ (winner' # winner \/ wins' # wins)) =>
            /\ wins'[winner'] = wins[winner'] + 1
            /\ wins'[Other(winner')] = wins[Other(winner')] ]_vars

\* C9 witness: the dark side has been recorded as winner and holds a win.
C9_Witness ==
    /\ winner = "dark"
    /\ wins.dark = 1
    /\ wins.light = 0

\* C10: rollDice, switchTurn and every movePiece that is rejected or does
\* not bear a piece off leave winner and both tallies unchanged.
C10_WinOnlyFromBearOff ==
    [][ ( \/ RollDice
          \/ SwitchTurn
          \/ \E i \in MoveInputs :
                MovePiece(i) /\ ~(InSeq(i, possibleMoves) /\ Target(i) = 14) )
        => UNCHANGED <<winner, wins>> ]_vars

\* C10 witness: a winner is on record and the turn has since been switched.
C10_Witness ==
    /\ winner # None
    /\ waitingForRoll
    /\ lastRoll = 0
    /\ wins[winner] > 0

\* C11: rollDice called while waitingForRoll is false returns the current
\* lastRoll and changes nothing: dice, lastRoll, possibleMoves,
\* waitingForRoll, currentPlayer, pieces and winner stay as they are.
C11_RollWhileNotWaitingIsNoOp ==
    [][ \A rolls \in DiceInputs :
          (~waitingForRoll /\ RollDiceWith(rolls)) =>
              /\ ret' = <<lastRoll>>
              /\ UNCHANGED <<dice, lastRoll, possibleMoves, waitingForRoll,
                             currentPlayer, pieces, winner>> ]_vars

\* C11 witness: a winning bear-off has left waitingForRoll false, and a
\* rollDice call made after it has handed back the roll still on record.
C11_Witness ==
    /\ ~waitingForRoll
    /\ winner # None
    /\ possibleMoves # <<>>
    /\ ret = <<lastRoll>>

\* C12: movePiece(i) with i not in possibleMoves (any i while a roll is
\* awaited, indices outside the array) changes no field of the match state
\* and no tally.
C12_RejectedMoveIsNoOp ==
    [][ \A i \in MoveInputs :
          (~InSeq(i, possibleMoves) /\ MovePiece(i)) => UNCHANGED game ]_vars

\* C12 witness: after a roll that allows moves, a movePiece call has
\* returned with the roll and its moves still pending.
C12_Witness ==
    /\ ~waitingForRoll
    /\ winner = None
    /\ lastRoll > 0
    /\ possibleMoves # <<>>
    /\ ret = <<>>

\* the state a roll of 0 leaves behind
ZeroRolled == ~waitingForRoll /\ lastRoll = 0

\* C13: a roll of 0 leaves possibleMoves empty, waitingForRoll false and
\* currentPlayer unchanged, and from then on no rollDice and no movePiece
\* changes currentPlayer; only switchTurn or resetGame ends that state.
C13_ZeroRollKeepsPlayer ==
    [][ /\ \A rolls \in DiceInputs :
             (waitingForRoll /\ SeqSum(rolls) = 0 /\ RollDiceWith(rolls)) =>
                 /\ possibleMoves' = <<>>
                 /\ waitingForRoll' = FALSE
                 /\ currentPlayer' = currentPlayer
        /\ (ZeroRolled /\ (RollDice \/ Move)) =>
                 /\ currentPlayer' = currentPlayer
                 /\ ZeroRolled' ]_vars

\* C13 witness: after a roll of 0 a movePiece call has been made and the
\* zero roll is still standing.
C13_Witness ==
    /\ ZeroRolled
    /\ possibleMoves = <<>>
    /\ dice = <<0, 0, 0, 0>>
    /\ ret = <<>>

AwaitingRoll == waitingForRoll /\ winner = None

\* C14 as stated: a roll of 0 in AwaitingRoll leaves the engine in
\* AwaitingRoll with the turn not switched.
C14_ZeroRollStaysAwaitingRoll ==
    [][ \A rolls \in DiceInputs :
          (AwaitingRoll /\ SeqSum(rolls) = 0 /\ RollDiceWith(rolls)) =>
              /\ AwaitingRoll'
              /\ currentPlayer' = currentPlayer ]_vars

\* C14 amended: a roll of 0 in AwaitingRoll leaves AwaitingRoll:
\* waitingForRoll becomes false, no winner is recorded, no move is offered,
\* lastRoll is 0 and the turn is not switched.
C14_ZeroRollLeavesAwaitingRoll ==
    [][ \A rolls \in DiceInputs :
          (AwaitingRoll /\ SeqSum(rolls) = 0 /\ RollDiceWith(rolls)) =>
              /\ ~AwaitingRoll'
              /\ ~waitingForRoll'
              /\ winner' = None
              /\ lastRoll' = 0
              /\ possibleMoves' = <<>>
              /\ currentPlayer' = currentPlayer ]_vars

\* C14 witness: rollDice has just returned 0 in a match without winner.
C14_Witness ==
    /\ ret = <<0>>
    /\ ZeroRolled
    /\ winner = None
    /\ \E j \in PieceIdx : OnBoard(j)

\* C15: rollDice never changes currentPlayer, pieces or winner; a nonzero
\* roll for which no piece is legal leaves waitingForRoll false,
\* possibleMoves empty and the same currentPlayer.
C15_RollKeepsPlayerWhenBlocked ==
    [][ \A rolls \in DiceInputs :
          RollDiceWith(rolls) =>
              /\ UNCHANGED <<currentPlayer, pieces, winner>>
              /\ (waitingForRoll /\ SeqSum(rolls) > 0 /\ LegalMoves' = {}) =>
                    /\ waitingForRoll' = FALSE
                    /\ possibleMoves' = <<>> ]_vars

\* C15 witness: in a match played from the start position, rollDice has
\* returned a nonzero sum for which the side to move has no legal piece.
C15_Witness ==
    /\ \A j \in 0 .. 4 : pieces[j].position = -1
    /\ winner = None
    /\ ~waitingForRoll
    /\ lastRoll > 0
    /\ ret = <<lastRoll>>
    /\ possibleMoves = <<>>
    /\ \E j \in PieceIdx : pieces[j].owner = currentPlayer /\ OnBoard(j)

\* C16: right after rollDice returns a sum r > 0, possibleMoves is exactly
\* the set of unfinished pieces of currentPlayer whose target t = position
\* + r is 14, or is below 14 with its cell free or held by an opponent
\* piece and t # 7.
C16_MovesAreTheLegalMoves ==
    [][ \A rolls \in DiceInputs :
          (waitingForRoll /\ SeqSum(rolls) > 0 /\ RollDiceWith(rolls)) =>
              /\ Range(possibleMoves') = LegalMoves'
              /\ Len(possibleMoves') = Cardinality(LegalMoves') ]_vars

\* C16 witness: rollDice has returned r > 0, one piece of the side to move
\* is offered and another is excluded because an own piece holds its
\* target cell.
C16_Witness ==
    /\ ~waitingForRoll
    /\ lastRoll > 0
    /\ ret = <<lastRoll>>
    /\ possibleMoves # <<>>
    /\ \E i, j \in PieceIdx :
          /\ i # j
          /\ pieces[i].owner = currentPlayer
          /\ pieces[j].owner = currentPlayer
          /\ ~pieces[i].isFinished
          /\ OnBoard(j)
          /\ pieces[i].position + lastRoll = pieces[j].position
          /\ ~InSeq(i, possibleMoves)

\* C17: after a nonzero roll every unfinished piece of currentPlayer with
\* position + lastRoll = 14 is in possibleMoves and no piece with position
\* + lastRoll > 14 is.
C17_ExactBearOffOnly ==
    [][ \A rolls \in DiceInputs :
          (waitingForRoll /\ SeqSum(rolls) > 0 /\ RollDiceWith(rolls)) =>
              \A i \in PieceIdx :
                 LET t == pieces'[i].position + lastRoll'
                 IN  /\ ( /\ pieces'[i].owner = currentPlayer'
                          /\ ~pieces'[i].isFinished
                          /\ t = 14 ) => InSeq(i, possibleMoves')
                     /\ t > 14 => ~InSeq(i, possibleMoves') ]_vars

\* C17 witness: after a roll one piece of the side to move is offered for
\* an exact bear-off and another one, which would overshoot, is not.
C17_Witness ==
    /\ ~waitingForRoll
    /\ winner = None
    /\ ret = <<lastRoll>>
    /\ \E i, j \in PieceIdx :
          /\ pieces[i].owner = currentPlayer
          /\ pieces[j].owner = currentPlayer
          /\ OnBoard(i) /\ OnBoard(j)
          /\ pieces[i].position + lastRoll = 14
          /\ pieces[j].position + lastRoll > 14
          /\ InSeq(i, possibleMoves)
          /\ ~InSeq(j, possibleMoves)

\* C18: an accepted move that does not bear off and whose target cell is
\* held by an opponent piece sends that piece to the reserve (position -1,
\* not finished) and puts the mover on the target index.
C18_CaptureSendsToReserve ==
    [][ \A i \in MoveInputs :
          (Accepted(i) /\ Target(i) \in 0 .. 13) =>
              /\ pieces'[i].position = Target(i)
              /\ \A j \in CellHolder(pieces[i].owner, Target(i)) :
                    pieces[j].owner # pieces[i].owner =>
                        /\ pieces'[j].position = -1
                        /\ ~pieces'[j].isFinished ]_vars

\* C18 witness: dark has rolled 4 with its piece on path index 2, a light
\* piece holds index 6, and the dark piece is offered as a move.
C18_Witness ==
    /\ currentPlayer = "dark"
    /\ ~waitingForRoll
    /\ lastRoll = 4
    /\ pieces[13].position = 2
    /\ InSeq(13, possibleMoves)
    /\ \E j \in PieceIdx :
          pieces[j].owner = "light" /\ OnBoard(j) /\ pieces[j].position = 6

\* C19: switchTurn, from any state, flips currentPlayer, sets
\* waitingForRoll, empties possibleMoves, zeroes lastRoll and dice and
\* leaves pieces, winner and tallies alone; a second call flips back.
C19_SwitchTurnEffect ==
    [][ SwitchTurn =>
          /\ currentPlayer' # currentPlayer
          /\ currentPlayer' \in {"light", "dark"}
          /\ Other(currentPlayer') = currentPlayer
          /\ waitingForRoll' = TRUE
          /\ possibleMoves' = <<>>
          /\ lastRoll' = 0
          /\ dice' = <<0, 0, 0, 0>>
          /\ UNCHANGED <<pieces, winner, wins>> ]_vars

\* C19 witness: light's only piece on the board stands on index 3, where
\* a move keeps the turn, and switchTurn has handed the turn to dark: dark
\* is to roll, roll and dice are zeroed.
C19_Witness ==
    /\ currentPlayer = "dark"
    /\ waitingForRoll
    /\ lastRoll = 0
    /\ dice = <<0, 0, 0, 0>>
    /\ possibleMoves = <<>>
    /\ \A j \in PieceIdx : pieces[j].owner = "dark" => pieces[j].position = -1
    /\ \A j \in PieceIdx : pieces[j].owner = "light" => pieces[j].position \in {-1, 3}
    /\ \E j \in PieceIdx : pieces[j].position = 3

\* the start-of-game match state
FreshMatch ==
    /\ \A j \in PieceIdx : pieces[j].position = -1 /\ ~pieces[j].isFinished
    /\ \A j \in PieceIdx : pieces[j].owner = (IF j <= 6 THEN "light" ELSE "dark")
    /\ currentPlayer = "light"
    /\ waitingForRoll
    /\ possibleMoves = <<>>
    /\ winner = None
    /\ lastRoll = 0
    /\ dice = <<0, 0, 0, 0>>

\* C20: resetGame, from any reachable state, yields exactly the
\* start-of-game state and leaves both win tallies unchanged.
C20_ResetYieldsFreshMatch ==
    [][ ResetGame => (FreshMatch' /\ wins' = wins) ]_vars

\* C20 witness: a fresh match with a win on the tally.
C20_Witness ==
    /\ FreshMatch
    /\ wins.light + wins.dark > 0

\* C21: winner is set once: from a state whose winner is side s, every
\* rollDice, movePiece and switchTurn leaves winner at s; only resetGame
\* changes it.
C21_WinnerSetOnce ==
    [][ (winner # None /\ (RollDice \/ Move \/ SwitchTurn)) =>
            winner' = winner ]_vars

\* the dice are 4 binary values and lastRoll is their sum
DiceConsistent ==
    /\ Len(dice) = 4
    /\ \A k \in 1 .. 4 : dice[k] \in {0, 1}
    /\ lastRoll = dice[1] + dice[2] + dice[3] + dice[4]
    /\ lastRoll \in 0 .. 4

\* C23: in every reachable state dice is 4 values each 0 or 1 and lastRoll
\* is their sum; a rollDice that takes effect stores the 4 drawn values,
\* sets lastRoll to their sum, sets waitingForRoll to false and returns
\* that sum.
C23_DiceAndRollAgree ==
    /\ []DiceConsistent
    /\ [][ \A rolls \in DiceInputs :
             (waitingForRoll /\ RollDiceWith(rolls)) =>
                 /\ dice' = rolls
                 /\ lastRoll' = rolls[1] + rolls[2] + rolls[3] + rolls[4]
                 /\ waitingForRoll' = FALSE
                 /\ ret' = <<lastRoll'>> ]_vars

\* C23 witness: a roll of three ones and a zero has taken effect and its
\* sum 3 has been returned.
C23_Witness ==
    /\ ~waitingForRoll
    /\ lastRoll = 3
    /\ dice[1] + dice[2] + dice[3] + dice[4] = 3
    /\ ret = <<3>>

\* C26: no board location holds two pieces: any two distinct pieces on the
\* board (not finished, position not -1) map to different board locations,
\* whether their owners are the same or not.
C26_OnePiecePerLocation ==
    \A j, k \in PieceIdx :
        (j # k /\ OnBoard(j) /\ OnBoard(k)) =>
            getPathLocation(pieces[j].owner, pieces[j].position)
                # getPathLocation(pieces[k].owner, pieces[k].position)

\* C26 witness: both sides have a piece in the shared zone while light has
\* a second piece on the board.
C26_Witness ==
    \E j, k, m \in PieceIdx :
        /\ j # k
        /\ OnBoard(j) /\ OnBoard(k) /\ OnBoard(m)
        /\ pieces[j].owner = "light" /\ pieces[k].owner = "light"
        /\ pieces[m].owner = "dark"
        /\ pieces[j].position \in 4 .. 11
        /\ pieces[m].position \in 4 .. 11

\* C27: from a state in which winner is set, no rollDice, movePiece or
\* switchTurn changes any piece's position or isFinished flag; the pieces
\* change again only through resetGame.
C27_NoPlayAfterWin ==
    [][ (winner # None /\ (RollDice \/ Move \/ SwitchTurn)) =>
            \A j \in PieceIdx :
                /\ pieces'[j].position = pieces[j].position
                /\ pieces'[j].isFinished = pieces[j].isFinished ]_vars

\* C28: within one match, from construction or a resetGame up to the next
\* resetGame, the total of the two win tallies grows by at most 1 over
\* its value at the start of the match.
C28_OneWinPerMatch ==
    (wins.light + wins.dark) <= (matchWins.light + matchWins.dark) + 1

\* C29: whenever waitingForRoll is true possibleMoves is empty, and so
\* every movePiece call made while a roll is awaited changes nothing.
C29_NoMovesWhileAwaitingRoll ==
    /\ [](waitingForRoll => possibleMoves = <<>>)
    /\ [][ \A i \in MoveInputs :
             (waitingForRoll /\ MovePiece(i)) => UNCHANGED game ]_vars

\* C29 witness: a movePiece call has put a piece on a rosette and returned:
\* a roll is awaited again while the roll just played is still on record.
C29_Witness ==
    /\ waitingForRoll
    /\ lastRoll > 0
    /\ winner = None
    /\ \E j \in PieceIdx : OnBoard(j) /\ pieces[j].position \in ROSETTE_INDICES
    /\ ret = <<>>

\* C30: a movePiece step sends a piece back to reserve only from the
\* combat zone: a piece whose position becomes -1 stood on an index in
\* 4..11 other than 7 and belongs to the side that did not move; pieces on
\* indices 0..3 and 12..13 are never captured.
C30_CaptureOnlyInCombatZone ==
    [][ Move =>
          \A j \in PieceIdx :
              (pieces[j].position # -1 /\ pieces'[j].position = -1) =>
                  /\ pieces[j].position \in (4 .. 11) \ {7}
                  /\ pieces[j].owner # currentPlayer
                  /\ \E i \in MoveInputs :
                        /\ Accepted(i)
                        /\ pieces[i].owner # pieces[j].owner ]_vars

\* C30 witness: light has a move pending whose target, a shared index, is
\* held by a dark piece.
C30_Witness ==
    /\ ~waitingForRoll
    /\ currentPlayer = "light"
    /\ \E i \in Range(possibleMoves), j \in PieceIdx :
          /\ i \in MoveInputs
          /\ pieces[j].owner = "dark"
          /\ OnBoard(j)
          /\ Target(i) \in 4 .. 11
          /\ pieces[j].position = Target(i)

(***************************************************************************)
(* The path-to-location mappings called on their own.                      *)
(***************************************************************************)
\* DomRenderer.getPathLocationId: (player, pathIndex) -> tile id
getPathLocationId(player, pathIndex) ==
    IF pathIndex < 0 \/ pathIndex > 14 THEN <<"UNKNOWN", 0>>
    ELSE IF pathIndex >= 4 /\ pathIndex <= 11 THEN <<"C", pathIndex - 4>>
    ELSE IF pathIndex < 4
         THEN <<(IF player = "light" THEN "L" ELSE "D"), pathIndex>>
    ELSE IF pathIndex > 11
         THEN <<(IF player = "light" THEN "L" ELSE "D"), pathIndex>>
    ELSE <<"UNKNOWN", 0>>

\* the path indices the mappings are called with: the board, the finish
\* index 14 and one index beyond either end
PathInputs == -1 .. 15

\* one call of both mappings; lookups keeps this call and the one before
Locate(player, pathIndex) ==
    /\ lookups' =
          <<[player    |-> player,
             pathIndex |-> pathIndex,
             location  |-> getPathLocation(player, pathIndex),
             tileId    |-> getPathLocationId(player, pathIndex)]>>
          \o (IF lookups = <<>> THEN <<>> ELSE <<lookups[1]>>)
    /\ UNCHANGED <<game, ret, matchWins, ctor, ui>>

NextPath ==
    \E player \in PlayerId, pathIndex \in PathInputs : Locate(player, pathIndex)

SpecPath == Init /\ [][NextPath]_vars

\* C24: for path indices in 0..13, the engine's mapping and the renderer's
\* mapping send (light, i) and (dark, j) to the same board location exactly
\* when i = j and i is in 4..11, and send distinct indices of one owner to
\* distinct locations.
C24_SharedExactlyInCombatZone ==
    \A a, b \in Range(lookups) :
        (a.pathIndex \in 0 .. 13 /\ b.pathIndex \in 0 .. 13) =>
            /\ a.player # b.player =>
                 /\ (a.location = b.location) <=>
                        (a.pathIndex = b.pathIndex /\ a.pathIndex \in 4 .. 11)
                 /\ (a.tileId = b.tileId) <=>
                        (a.pathIndex = b.pathIndex /\ a.pathIndex \in 4 .. 11)
            /\ (a.player = b.player /\ a.pathIndex # b.pathIndex) =>
                 /\ a.location # b.location
                 /\ a.tileId # b.tileId

\* C24 witness: index 5 has been looked up for both sides and both
\* mappings gave the two sides the same location.
C24_Witness ==
    /\ Len(lookups) = 2
    /\ lookups[1].player # lookups[2].player
    /\ lookups[1].pathIndex = 5
    /\ lookups[2].pathIndex = 5
    /\ lookups[1].location = lookups[2].location
    /\ lookups[1].tileId = lookups[2].tileId

(***************************************************************************)
(* The constructor: loadWins, then getInitialState.                        *)
(***************************************************************************)
\* a field of Game.state before the constructor has assigned state
Undefined == "undefined"

\* the text saveWins stores for the tally {light: 2, dark: 1}
StoredTally == "{\"light\":2,\"dark\":1}"

\* what localStorage.getItem('rgu-wins') may hand to loadWins: null, the
\* empty text, a stored tally, a JSON object of another shape, a truncated
\* tally and a text that is no JSON at all
SavedInputs ==
    { <<>>, <<"">>, <<StoredTally>>, <<"{\"wins\":3}">>,
      <<"{\"light\":2">>, <<"rgu">> }

\* JSON.parse on the texts of SavedInputs: the value of a JSON text, a
\* SyntaxError (threw) for any other text
JSONparse(text) ==
    CASE text = StoredTally ->
             [threw |-> FALSE, value |-> [light |-> 2, dark |-> 1]]
      [] text = "{\"wins\":3}" ->
             [threw |-> FALSE, value |-> [wins |-> 3]]
      [] OTHER ->
             [threw |-> TRUE, value |-> <<>>]

\* before `new Game()`: wins holds its field initialiser, state is
\* unassigned
InitLoad ==
    /\ saved \in SavedInputs
    /\ built = "new"
    /\ wins = [light |-> 0, dark |-> 0]
    /\ pieces = Undefined
    /\ currentPlayer = Undefined
    /\ dice = Undefined
    /\ waitingForRoll = Undefined
    /\ possibleMoves = Undefined
    /\ winner = Undefined
    /\ lastRoll = Undefined
    /\ ret = <<>>
    /\ matchWins = wins
    /\ lookups = <<>>
    /\ draggedPiece = <<>>
    /\ switchTimers = 0
    /\ resetTimers = 0

\* new Game(): `if (saved)` is false for null and for the empty text; a
\* SyntaxError of JSON.parse leaves the constructor before state is
\* assigned
Construct ==
    /\ built = "new"
    /\ LET truthy == saved # <<>> /\ saved[1] # ""
           parsed == JSONparse(saved[1])
       IN  IF truthy /\ parsed.threw
           THEN /\ built' = "threw"
                /\ UNCHANGED <<game, matchWins>>
           ELSE /\ wins' = IF truthy THEN parsed.value
                           ELSE [light |-> 0, dark |-> 0]
                /\ pieces' = InitialPieces
                /\ currentPlayer' = "light"
                /\ dice' = <<0, 0, 0, 0>>
                /\ waitingForRoll' = TRUE
                /\ possibleMoves' = <<>>
                /\ winner' = None
                /\ lastRoll' = 0
                /\ built' = "ok"
                /\ matchWins' = wins'
    /\ UNCHANGED <<ret, saved, lookups, ui>>

\* the constructor, then the engine's public methods on the object built
NextLoad ==
    \/ Construct
    \/ built = "ok" /\ RollDice   /\ UNCHANGED <<matchWins, ctor, lookups, ui>>
    \/ built = "ok" /\ Move       /\ UNCHANGED <<matchWins, ctor, lookups, ui>>
    \/ built = "ok" /\ SwitchTurn /\ UNCHANGED <<matchWins, ctor, lookups, ui>>
    \/ built = "ok" /\ ResetGame  /\ matchWins' = wins
                    /\ UNCHANGED <<ctor, lookups, ui>>

SpecLoad == InitLoad /\ [][NextLoad]_vars

\* the stored value is missing or is not the text of a tally
AbsentOrMalformed == saved # <<StoredTally>>

\* C22: constructing the engine when the stored tally is absent or
\* malformed raises no error and yields the tally {0,0} and the
\* start-of-game match state.
C22_LoadFallsBackToZero ==
    [][ (Construct /\ AbsentOrMalformed) =>
            /\ built' = "ok"
            /\ wins' = [light |-> 0, dark |-> 0]
            /\ FreshMatch' ]_vars

(***************************************************************************)
(* The engine driven by DomInputHandler: the roll and restart buttons, the *)
(* drag of a piece, and the callbacks the roll button handler schedules    *)
(* with setTimeout.  DomRenderer.render runs at the end of every handler   *)
(* and callback, so between two events the roll button is disabled exactly *)
(* when waitingForRoll is false and a piece carries the class 'finished'   *)
(* exactly when isFinished is set.  A scheduled callback runs at some      *)
(* later point; delays are not measured.                                   *)
(***************************************************************************)
\* the pieces the user drags: one light piece, one dark piece
DragInputs == {6, 13}

\* where a dragged piece is dropped: on a tile, on the finish box of its
\* owner, anywhere else
DropInputs == {"tile", "finish", "elsewhere"}

\* callbacks of one kind that may be scheduled at a time
MaxPending == 1

\* wins on the tally up to which a match is followed into its endgame
MaxWins == 1

\* the page after main.ts has run
InitUI ==
    /\ pieces = InitialPieces
    /\ currentPlayer = "light"
    /\ dice = <<0, 0, 0, 0>>
    /\ waitingForRoll = TRUE
    /\ possibleMoves = <<>>
    /\ winner = None
    /\ lastRoll = 0
    /\ wins = [light |-> 0, dark |-> 0]
    /\ ret = <<>>
    /\ matchWins = wins
    /\ saved = <<>>
    /\ built = "ok"
    /\ lookups = <<>>
    /\ draggedPiece = <<>>
    /\ switchTimers = 0
    /\ resetTimers = 0

\* click on the roll button, which is enabled only while waitingForRoll is
\* true: rollDice, then the two setTimeout calls
RollClick(rolls) ==
    /\ waitingForRoll
    /\ RollDiceWith(rolls)
    /\ LET zero == lastRoll' = 0 /\ ~waitingForRoll'
           won  == winner' # None
       IN  /\ zero => switchTimers < MaxPending
           /\ won => resetTimers < MaxPending
           /\ switchTimers' = IF zero THEN switchTimers + 1 ELSE switchTimers
           /\ resetTimers' = IF won THEN resetTimers + 1 ELSE resetTimers
    /\ UNCHANGED <<draggedPiece, matchWins, ctor, lookups>>

\* handleDragStart on piece i
DragStart(i) ==
    /\ pieces[i].owner = currentPlayer
    /\ ~waitingForRoll
    /\ ~pieces[i].isFinished
    /\ InSeq(i, possibleMoves)
    /\ draggedPiece' = <<i>>
    /\ UNCHANGED <<game, ret, switchTimers, resetTimers, matchWins, ctor,
                   lookups>>

\* handleDragEnd: movePiece is called for a drop on a tile unless the move
\* bears off, and for a drop on the finish box if it does
DragEnd(drop) ==
    /\ draggedPiece # <<>>
    /\ LET pieceIndex == draggedPiece[1]
           targetPathIndex == pieces[pieceIndex].position + lastRoll
       IN  IF \/ drop = "tile" /\ targetPathIndex # 14
              \/ drop = "finish" /\ targetPathIndex = 14
           THEN MovePiece(pieceIndex)
           ELSE UNCHANGED <<game, ret>>
    /\ draggedPiece' = <<>>
    /\ UNCHANGED <<switchTimers, resetTimers, matchWins, ctor, lookups>>

\* click on the restart button
RestartClick ==
    /\ ResetGame
    /\ matchWins' = wins
    /\ UNCHANGED <<ui, ctor, lookups>>

\* the callback scheduled after a roll of 0 runs
SwitchTimerFires ==
    /\ switchTimers > 0
    /\ SwitchTurn
    /\ switchTimers' = switchTimers - 1
    /\ UNCHANGED <<draggedPiece, resetTimers, matchWins, ctor, lookups>>

\* the callback scheduled after a roll click that found a winner runs
ResetTimerFires ==
    /\ resetTimers > 0
    /\ ResetGame
    /\ matchWins' = wins
    /\ resetTimers' = resetTimers - 1
    /\ UNCHANGED <<draggedPiece, switchTimers, ctor, lookups>>

\* the players play a match on from its start to the endgame position,
\* light to roll; the roll clicks and drags in between are not followed one
\* by one, and what is scheduled stays scheduled
PlayOn ==
    /\ FreshMatch
    /\ wins.light + wins.dark < MaxWins
    /\ pieces' = EndgamePieces
    /\ UNCHANGED <<currentPlayer, dice, waitingForRoll, possibleMoves, winner,
                   lastRoll, wins, ret, matchWins, ctor, lookups, ui>>

NextUI ==
    \/ \E rolls \in DiceInputs : RollClick(rolls)
    \/ \E i \in DragInputs : DragStart(i)
    \/ \E drop \in DropInputs : DragEnd(drop)
    \/ RestartClick
    \/ SwitchTimerFires
    \/ ResetTimerFires
    \/ PlayOn

\* the user may stop clicking and dragging at any time; a scheduled
\* callback is run by the browser's event loop
SpecUI ==
    /\ InitUI
    /\ [][NextUI]_vars
    /\ WF_vars(SwitchTimerFires)
    /\ WF_vars(ResetTimerFires)

\* C25: in the engine driven by DomInputHandler, once a move has recorded a
\* winner the match eventually returns to the start-of-game state, by the
\* timed resetGame, whether or not the restart button is ever pressed.
C25_AutoRestartAfterWin ==
    (winner # None) ~> FreshMatch

\* the pieces other than i that a step changes
ChangedOthers(i) == { j \in PieceIdx \ {i} : pieces'[j] # pieces[j] }

\* C31: a successful movePiece(i) moves piece i forward by exactly
\* lastRoll, changes at most one other piece, an opponent's piece whose
\* position becomes -1, and leaves every other piece, every owner and the
\* 7 pieces of each side as they are; piece i belongs to the currentPlayer
\* of the pre-state.
C31_MoveFrame ==
    [][ \A i \in MoveInputs :
          Accepted(i) =>
              /\ pieces'[i].position = pieces[i].position + lastRoll
              /\ pieces[i].owner = currentPlayer
              /\ Cardinality(ChangedOthers(i)) <= 1
              /\ \A j \in ChangedOthers(i) :
                    /\ pieces[j].owner # pieces[i].owner
                    /\ pieces'[j] = [pieces[j] EXCEPT !.position = -1]
              /\ DOMAIN pieces' = PieceIdx
              /\ \A j \in PieceIdx : pieces'[j].owner = pieces[j].owner
              /\ \A s \in PlayerId :
                    Cardinality({ j \in PieceIdx : pieces'[j].owner = s })
                        = TOTAL_PIECES ]_vars

\* C31 witness: dark has a move pending whose target, a shared index, is
\* held by a light piece.
C31_Witness ==
    /\ ~waitingForRoll
    /\ currentPlayer = "dark"
    /\ \E i \in Range(possibleMoves), j \in PieceIdx :
          /\ i \in MoveInputs
          /\ pieces[j].owner = "light"
          /\ OnBoard(j)
          /\ Target(i) \in 4 .. 11
          /\ pieces[j].position = Target(i)

\* C32: the switchTurn callback scheduled after a roll of 0 runs only in a
\* zero-roll state (lastRoll 0, waitingForRoll false): it never runs in a
\* freshly reset match, where a roll is awaited, nor while a nonzero roll
\* is pending.
C32_SwitchTimerOnlyAfterZeroRoll ==
    [][ SwitchTimerFires => ZeroRolled ]_vars

\* a roll has left the current player without a legal move
Blocked == ~waitingForRoll /\ possibleMoves = <<>> /\ winner = None

\* a handler or callback other than a resetGame changes the engine state
StepWithoutReset ==
    /\ \/ \E rolls \in DiceInputs : RollClick(rolls)
       \/ \E i \in DragInputs : DragStart(i)
       \/ \E drop \in DropInputs : DragEnd(drop)
       \/ SwitchTimerFires
    /\ game' # game

\* C33: in the engine driven by DomInputHandler, whenever a roll, of 0 or
\* more, leaves the current player without a legal move, something other
\* than a resetGame can still move the match on: there is no reachable
\* state from which only resetGame makes progress.
C33_BlockedRollCanMoveOn ==
    Blocked => ENABLED StepWithoutReset

====
